---- MODULE Spec2Model ----
(***************************************************************************)
(* whisper-server: the FastAPI gateway (main.py), the Celery task          *)
(* transcribe_audio (worker.py) and the Celery delivery settings           *)
(* (celery_app.py), as one state machine.                                  *)
(*                                                                         *)
(* A request r saves its upload under recordings/<uuid><ext> (the path is  *)
(* named by r) and enqueues a task; the task id given by delay() is the    *)
(* job handle.  Handles are numbered in the order of enqueue.              *)
(***************************************************************************)
EXTENDS Integers, Sequences, FiniteSets, TLC

\* ------------------------------------------------------------------ bounds
MaxReq == 2
MaxPool == 2
\* longest list of segments the engine returns where the text is examined
MaxSegments == 2

Requests == 1..MaxReq
Handles == 1..MaxReq
\* tempfile.mktemp names; one per job is the most that is ever created
TempNames == 1..MaxReq
Executors == 1..MaxPool
\* a handle no submission ever returned
NeverIssued == 0
Queryable == {NeverIssued} \cup Handles

\* ------------------------------------------------- celery_app.py settings
task_track_started == TRUE
worker_prefetch_multiplier_two == 1 + 1
worker_prefetch_multiplier == 1
task_acks_late == TRUE
worker_max_tasks_per_child == 50

\* --------------------------------------------------------------- main.py
SUPPORTED_MIME_TYPES ==
    {"audio/mpeg", "audio/wav", "audio/x-wav", "audio/m4a", "audio/x-m4a",
     "audio/mp4", "audio/ogg", "audio/webm"}

\* content types and file suffixes a client sends
ContentTypes == {"audio/mpeg", "text/plain"}
Extensions == {".wav", ".mp3"}
\* no file at a path
Absent == "absent"

\* Optional[...] of the pydantic models: None is <<>>, a value v is <<v>>
None == <<>>
Some(v) == <<v>>
\* an Optional field holds a value
IsSet(field) == Len(field) = 1

VARIABLES
    gpc,          \* gateway request r: "idle", "saved", "enqueued", "done"
    jobId,        \* task.id the request got from delay(), 0 before
    gresp,        \* HTTP response of request r
    input,        \* the file recordings/<temp_id><ext> of request r: its suffix, or Absent
    tempFile,     \* converted file at temp name t: its writer and whether an unlink of it raised
    queue,        \* the broker's "whisper" list
    reserved,     \* messages the worker has fetched and not yet started
    jobs,         \* number of tasks enqueued so far
    argPath,      \* audio_path argument of job h (a request), 0 when not enqueued
    backend,      \* result backend: record of task h
    outcome,      \* what the worker stored when task h finished: "none", "completed", "failed"
    pool,         \* number of executors of the worker (its concurrency)
    epc,          \* executor e: position in transcribe_audio
    job,          \* executor e: handle it runs, 0 when idle
    model,        \* executor e: the process-global model is loaded
    tcf,          \* executor e: temp_converted_file (a temp name), 0 for None
    work,         \* executor e: working_audio_path, "orig" or "temp"
    engineOut,    \* executor e: what model.transcribe gave, NoOutput before
    err,          \* executor e: the exception caught at line 119
    conv,         \* executor e: what convert_audio did: "none", "ok", "partial", "clean"
    hist,         \* executor e, this task: the input was missing at its start; unlink calls on the input
    proc,         \* executor e, its child process: tasks it has run, models it has loaded,
                  \* and models the processes it replaced had loaded
    starts,       \* number of times transcribe_audio was started for handle h
    fallback,     \* jobs whose conversion failed and whose engine call then succeeded
    resp          \* the response get_job_status is returning, NoQuery otherwise

vars == <<gpc, jobId, gresp, input, tempFile, queue, reserved, jobs,
          argPath, backend, outcome, pool, epc, job, model, tcf, work, engineOut,
          err, conv, hist, proc, starts, fallback, resp>>

gatewayVars == <<gpc, jobId, gresp>>
brokerVars == <<queue, reserved, jobs, argPath>>
execVars == <<epc, job, model, tcf, work, engineOut, err, conv, hist, proc>>

\* ------------------------------------------------------------ text (worker.py 92-97)
Whitespace == {" "}

RECURSIVE Join(_)
\* "".join(transcription_parts)
Join(parts) == IF parts = <<>> THEN <<>> ELSE Head(parts) \o Join(Tail(parts))

RECURSIVE LStrip(_)
LStrip(s) == IF s # <<>> /\ Head(s) \in Whitespace THEN LStrip(Tail(s)) ELSE s

RECURSIVE RStrip(_)
RStrip(s) ==
    IF s # <<>> /\ s[Len(s)] \in Whitespace THEN RStrip(SubSeq(s, 1, Len(s) - 1)) ELSE s

\* str.strip()
Strip(s) == RStrip(LStrip(s))

FullTextLeftStripped(segments) == LStrip(Join(segments))
\* full_text = "".join(transcription_parts).strip()
FullText(segments) == Strip(Join(segments))

\* what model.transcribe can return: the segments' texts and the info
NoOutput == [ok |-> FALSE]
SegmentLists == { << <<" ", "h", "i">>, <<" ", "y", "o", " ">> >> }
EngineOutput(s) ==
    [ok |-> TRUE, segments |-> s, language |-> "en",
     language_probability |-> "0.98", duration |-> "10.0"]
EngineOutputs == { EngineOutput(s) : s \in SegmentLists }

\* segment texts with and without whitespace at either end, and the lists of
\* up to MaxSegments of them, the empty list included
SegmentTexts ==
    { <<>>, <<" ">>, <<"a">>, <<" ", "a">>, <<"a", " ">>, <<" ", "a", " ">> }
AnySegmentLists == UNION { [1..n -> SegmentTexts] : n \in 0..MaxSegments }
AnyEngineOutputs == { EngineOutput(s) : s \in AnySegmentLists }

\* the dict transcribe_audio returns (worker.py 111-117)
ResultDict(out) ==
    [status |-> "completed", text |-> FullText(out.segments), language |-> out.language,
     duration |-> out.duration, language_probability |-> out.language_probability]

\* str(e) of the exception caught at worker.py 119
ExceptionText(kind) ==
    CASE kind = "load" -> "model load failed"
      [] kind = "notfound" -> "Audio file not found"
      [] kind = "conversion" -> "Audio conversion failed"
      [] OTHER -> "engine error"

\* error_msg = f"Transcription failed: {str(e)}"
ErrorMsg(kind) == <<"Transcription failed: ", ExceptionText(kind)>>

\* needs_conversion = file_extension not in ['.wav', '.flac']
needs_conversion(suffix) == suffix \notin {".wav", ".flac"}

\* ------------------------------------------------------- result backend
NoRecord == [state |-> "PENDING", meta |-> [tag |-> "none"]]
StartedRecord == [state |-> "STARTED", meta |-> [tag |-> "none"]]
\* self.update_state(state='PROGRESS', meta={'message': m})
ProgressRecord(m) == [state |-> "PROGRESS", meta |-> [tag |-> "dict", message |-> m]]
\* the record the worker stores when the task returns
SuccessRecord(result) == [state |-> "SUCCESS", meta |-> [tag |-> "result", result |-> result]]
\* self.update_state(state='FAILURE', meta={'error': error_msg})
FailureMetaRecord(msg) == [state |-> "FAILURE", meta |-> [tag |-> "dict", error |-> msg]]
\* the record the worker stores when the task raises: the exception itself
FailureExcRecord(msg) == [state |-> "FAILURE", meta |-> [tag |-> "exception", args |-> msg]]

\* ------------------------------------------------- get_job_status (main.py 112-164)
NoResponse == [code |-> 0]
Http500 == [code |-> 500, detail |-> "Failed to retrieve job status"]

TranscriptionResponse(h, st, text, language, duration, prob, error) ==
    [code |-> 200, job_id |-> h, status |-> st, text |-> text, language |-> language,
     duration |-> duration, language_probability |-> prob, error |-> error]

\* lines 121-126
QueuedResponse(h) == TranscriptionResponse(h, "queued", None, None, None, None, None)
\* lines 127-132
ProcessingResponse(h) == TranscriptionResponse(h, "processing", None, None, None, None, None)

CompletedResponseNoText(h, result) ==
    TranscriptionResponse(h, "completed", None, Some(result.language),
                          Some(result.duration), Some(result.language_probability), None)
\* lines 133-143
CompletedResponse(h, result) ==
    TranscriptionResponse(h, "completed", Some(result.text), Some(result.language),
                          Some(result.duration), Some(result.language_probability), None)
\* lines 144-150
FailedResponse(h, msg) == TranscriptionResponse(h, "failed", None, None, None, None, Some(msg))
\* lines 151-157
UnknownResponse(h, state) ==
    TranscriptionResponse(h, "unknown", None, None, None, None,
                          Some(<<"Unknown job state: ", state>>))

\* The responses a query on handle h can get from record rec.  AsyncResult of a
\* task id the backend has no record of is PENDING.  A FAILURE record whose
\* meta is the dict of update_state either fails to decode as an exception
\* (the read raises, line 159 answers 500) or is handed over as the dict,
\* depending on the backend; a FAILURE record stored by the worker holds the
\* exception, which has no .get (AttributeError, answered 500).
get_job_status(h, rec) ==
    CASE rec.state = "PENDING" -> {QueuedResponse(h)}
      [] rec.state = "PROGRESS" -> {ProcessingResponse(h)}
      [] rec.state = "SUCCESS" -> {CompletedResponse(h, rec.meta.result)}
      [] rec.state = "FAILURE" ->
            IF rec.meta.tag = "dict"
            THEN {FailedResponse(h, rec.meta.error), Http500}
            ELSE {Http500}
      [] OTHER -> {UnknownResponse(h, rec.state)}

\* the record AsyncResult(h) reads
RecordOf(h) == IF h \in Handles THEN backend[h] ELSE NoRecord

NoQuery == [h |-> NeverIssued, r |-> NoResponse]
\* no get_job_status response is on its way
Quiet == resp' = NoQuery

\* ------------------------------------------------------------------ disk
NoFile == [owner |-> 0, unlinkRaised |-> FALSE]
InputExists(r) == input[r] # Absent
TempExists(t) == tempFile[t].owner # 0

\* what is known of a task before it starts
NoHistory == [missing |-> FALSE, unlinks |-> 0]
\* a pool child process that has run no task: model is None (worker.py 20-21)
NewProcess == [tasks |-> 0, loads |-> 0, loadsBefore |-> 0]

\* ------------------------------------------------------------------ Init
Init ==
    /\ gpc = [r \in Requests |-> "idle"]
    /\ jobId = [r \in Requests |-> 0]
    /\ gresp = [r \in Requests |-> NoResponse]
    /\ input = [r \in Requests |-> Absent]
    /\ tempFile = [t \in TempNames |-> NoFile]
    /\ queue = <<>>
    /\ reserved = <<>>
    /\ jobs = 0
    /\ argPath = [h \in Handles |-> 0]
    /\ backend = [h \in Handles |-> NoRecord]
    /\ outcome = [h \in Handles |-> "none"]
    /\ pool \in 1..MaxPool
    /\ epc = [e \in Executors |-> "idle"]
    /\ job = [e \in Executors |-> 0]
    /\ model = [e \in Executors |-> FALSE]
    /\ tcf = [e \in Executors |-> 0]
    /\ work = [e \in Executors |-> "orig"]
    /\ engineOut = [e \in Executors |-> NoOutput]
    /\ err = [e \in Executors |-> "none"]
    /\ conv = [e \in Executors |-> "none"]
    /\ hist = [e \in Executors |-> NoHistory]
    /\ proc = [e \in Executors |-> NewProcess]
    /\ starts = [h \in Handles |-> 0]
    /\ fallback = {}
    /\ resp = NoQuery

\* --------------------------------- transcribe_audio_endpoint (main.py 65-110)
UnsupportedMediaType == [code |-> 415, detail |-> "Unsupported file type"]
UploadFailed == [code |-> 500, detail |-> "Failed to process upload"]
\* line 106 reads job_id before line 93 bound it: the handler itself raises
InternalServerError == [code |-> 500, detail |-> "Internal Server Error"]
Accepted(h) == [code |-> 200, job_id |-> h, status |-> "queued"]

\* lines 74-89: validate the declared type, pick the temp name, save the upload
Upload(r) ==
    /\ gpc[r] = "idle"
    /\ IF r = 1 THEN TRUE ELSE gpc[r - 1] # "idle"
    /\ \E ct \in ContentTypes :
          \/ /\ ct \notin SUPPORTED_MIME_TYPES
             /\ gpc' = [gpc EXCEPT ![r] = "done"]
             /\ gresp' = [gresp EXCEPT ![r] = UnsupportedMediaType]
             /\ UNCHANGED input
          \/ /\ ct \in SUPPORTED_MIME_TYPES
             /\ \E suffix \in Extensions : input' = [input EXCEPT ![r] = suffix]
             /\ gpc' = [gpc EXCEPT ![r] = "saved"]
             /\ UNCHANGED gresp
          \/ \* the copy raises: lines 102-110 remove what was written
             /\ ct \in SUPPORTED_MIME_TYPES
             /\ gpc' = [gpc EXCEPT ![r] = "done"]
             /\ gresp' = [gresp EXCEPT ![r] = InternalServerError]
             /\ UNCHANGED input
    /\ Quiet
    /\ UNCHANGED <<jobId, tempFile, brokerVars, backend, outcome, pool, execVars,
                   starts, fallback>>

\* the broker's list after delay() published message h
Publish(q, h) == Append(q, h)

\* lines 92-93: task = transcribe_audio.delay(str(temp_path)); job_id = task.id
Enqueue(r) ==
    /\ gpc[r] = "saved"
    /\ \/ /\ jobs' = jobs + 1
          /\ argPath' = [argPath EXCEPT ![jobs + 1] = r]
          /\ queue' = Publish(queue, jobs + 1)
          /\ jobId' = [jobId EXCEPT ![r] = jobs + 1]
          /\ gpc' = [gpc EXCEPT ![r] = "enqueued"]
          /\ UNCHANGED <<gresp, input>>
       \/ \* delay raises (broker unreachable): lines 102-110
          /\ input' = [input EXCEPT ![r] = Absent]
          /\ gpc' = [gpc EXCEPT ![r] = "done"]
          /\ gresp' = [gresp EXCEPT ![r] = InternalServerError]
          /\ UNCHANGED <<jobs, argPath, queue, jobId>>
    /\ Quiet
    /\ UNCHANGED <<tempFile, reserved, backend, outcome, pool, execVars,
                   starts, fallback>>

InputRemovedByHandler(r) == [input EXCEPT ![r] = Absent]
\* lines 95-110 leave the saved file where it is: the return does not touch
\* it, and the except block unlinks it only if it exists, which it does not
\* when stat raised
InputAfterResponse(r) == input

\* lines 95-100: the log line stats temp_path, then the response is built;
\* stat raises when the file is gone, and lines 102-110 answer 500
Respond(r) ==
    /\ gpc[r] = "enqueued"
    /\ gpc' = [gpc EXCEPT ![r] = "done"]
    /\ gresp' = [gresp EXCEPT ![r] =
                    IF InputExists(r) THEN Accepted(jobId[r]) ELSE UploadFailed]
    /\ input' = InputAfterResponse(r)
    /\ Quiet
    /\ UNCHANGED <<jobId, tempFile, brokerVars, backend, outcome,
                   pool, execVars, starts, fallback>>

\* The saved file disappears while its job waits (recordings/ is cleaned, or
\* is not the directory the worker sees): the case line 45 tests for.
Waiting(h) ==
    \/ \E i \in 1..Len(queue) : queue[i] = h
    \/ \E i \in 1..Len(reserved) : reserved[i] = h

InputLost(h) ==
    /\ h \in 1..jobs
    /\ Waiting(h)
    /\ InputExists(argPath[h])
    /\ input' = [input EXCEPT ![argPath[h]] = Absent]
    /\ Quiet
    /\ UNCHANGED <<gatewayVars, tempFile, brokerVars, backend, outcome, pool, execVars,
                   starts, fallback>>

\* get_job_status (main.py 112-164)
Query(h) ==
    /\ h = NeverIssued \/ h \in 1..jobs
    /\ \E r \in get_job_status(h, RecordOf(h)) : resp' = [h |-> h, r |-> r]
    /\ UNCHANGED <<gatewayVars, input, tempFile, brokerVars, backend, outcome,
                   pool, execVars, starts, fallback>>

\* ------------------------------------------- delivery (celery_app.py 16-31)
Running == {job[e] : e \in Executors} \ {0}
SeqSet(q) == {q[i] : i \in 1..Len(q)}

\* messages delivered to the worker and not acknowledged: with task_acks_late
\* a message is acknowledged when its task has finished, else when it starts
Unacked == SeqSet(reserved) \cup (IF task_acks_late THEN Running ELSE {})

\* the worker's prefetch limit: concurrency * worker_prefetch_multiplier
PrefetchLimit == pool * worker_prefetch_multiplier

DequeueKeep(q) == q
\* the broker's list after the worker popped its head
Dequeue(q) == Tail(q)

\* the worker's consumer takes the next message off the broker
Fetch ==
    /\ queue # <<>>
    /\ Cardinality(Unacked) < PrefetchLimit
    /\ reserved' = Append(reserved, Head(queue))
    /\ queue' = Dequeue(queue)
    /\ Quiet
    /\ UNCHANGED <<gatewayVars, input, tempFile, jobs, argPath, backend, outcome,
                   pool, execVars, starts, fallback>>

\* the record the worker writes as the task starts (task_track_started)
OnStart(rec) == IF task_track_started THEN StartedRecord ELSE rec

\* Executors that are idle with the same model state are interchangeable:
\* the lowest-numbered of them takes the task.
FirstOfItsKind(e) ==
    \A e2 \in 1..pool :
        e2 < e => ~(epc[e2] = "idle" /\ model[e2] = model[e] /\ proc[e2] = proc[e])

\* a free executor starts transcribe_audio for the first reserved message
Start(e) ==
    /\ e \in 1..pool
    /\ epc[e] = "idle"
    /\ FirstOfItsKind(e)
    /\ reserved # <<>>
    /\ LET h == Head(reserved) IN
          /\ job' = [job EXCEPT ![e] = h]
          /\ backend' = [backend EXCEPT ![h] = OnStart(backend[h])]
          /\ starts' = [starts EXCEPT ![h] = @ + 1]
          /\ hist' = [hist EXCEPT ![e].missing = ~InputExists(argPath[h])]
    /\ reserved' = Tail(reserved)
    /\ epc' = [epc EXCEPT ![e] = "load"]
    /\ Quiet
    /\ UNCHANGED <<gatewayVars, input, tempFile, queue, jobs, argPath, outcome,
                   pool, model, tcf, work, engineOut, err, conv, proc, fallback>>

\* result_expires: the backend drops the record of a finished task
Expire(h) ==
    /\ h \in 1..jobs
    /\ outcome[h] # "none"
    /\ backend[h] # NoRecord
    /\ backend' = [backend EXCEPT ![h] = NoRecord]
    /\ Quiet
    /\ UNCHANGED <<gatewayVars, input, tempFile, brokerVars, outcome, pool,
                   execVars, starts, fallback>>

\* ------------------------------------------ transcribe_audio (worker.py 23-134)
InputOf(e) == argPath[job[e]]

ModelAlwaysNone(e) == TRUE
\* line 38: if model is None
ModelIsNone(e) == ~model[e]

\* lines 38-41: the process-global model is loaded on first use
LoadModel(e) ==
    /\ epc[e] = "load"
    /\ \/ /\ ~ModelIsNone(e)
          /\ epc' = [epc EXCEPT ![e] = "check"]
          /\ UNCHANGED <<model, proc, err>>
       \/ /\ ModelIsNone(e)
          /\ model' = [model EXCEPT ![e] = TRUE]
          /\ proc' = [proc EXCEPT ![e].loads = @ + 1]
          /\ epc' = [epc EXCEPT ![e] = "check"]
          /\ UNCHANGED err
       \/ \* WhisperModel(...) raises: audio_path is still the str argument
          /\ ModelIsNone(e)
          /\ err' = [err EXCEPT ![e] = "load"]
          /\ epc' = [epc EXCEPT ![e] = "except"]
          /\ UNCHANGED <<model, proc>>
    /\ Quiet
    /\ UNCHANGED <<gatewayVars, input, tempFile, brokerVars, backend, outcome,
                   pool, job, tcf, work, engineOut, conv, hist, starts, fallback>>

\* lines 43-57: the existence check, then the first PROGRESS record
CheckInput(e) ==
    /\ epc[e] = "check"
    /\ \/ /\ InputExists(InputOf(e))
          /\ backend' = [backend EXCEPT ![job[e]] = ProgressRecord("Starting transcription")]
          /\ epc' = [epc EXCEPT ![e] =
                        IF needs_conversion(input[InputOf(e)]) THEN "mktemp" ELSE "transcribe"]
          /\ UNCHANGED err
       \/ /\ ~InputExists(InputOf(e))
          /\ err' = [err EXCEPT ![e] = "notfound"]
          /\ epc' = [epc EXCEPT ![e] = "except"]
          /\ UNCHANGED backend
    /\ Quiet
    /\ UNCHANGED <<gatewayVars, input, tempFile, brokerVars, outcome, pool, job,
                   model, tcf, work, engineOut, conv, hist, proc, starts, fallback>>

\* Names no executor holds are interchangeable: of those, mktemp gives the
\* lowest; it can also give a name another executor got and has not yet written.
Held(t) == \E e \in Executors : tcf[e] = t
MktempCandidate(t) ==
    /\ ~TempExists(t)
    /\ Held(t) \/ \A t2 \in TempNames : t2 < t => (TempExists(t2) \/ Held(t2))

\* lines 60-65: the second PROGRESS record, then tempfile.mktemp: a name that
\* does not exist at the time of the call (the file is not created)
Mktemp(e) ==
    /\ epc[e] = "mktemp"
    /\ backend' = [backend EXCEPT ![job[e]] = ProgressRecord("Converting audio format")]
    /\ \E t \in TempNames :
          /\ MktempCandidate(t)
          /\ tcf' = [tcf EXCEPT ![e] = t]
    /\ epc' = [epc EXCEPT ![e] = "convert"]
    /\ Quiet
    /\ UNCHANGED <<gatewayVars, input, tempFile, brokerVars, outcome, pool, job,
                   model, work, engineOut, err, conv, hist, proc, starts, fallback>>

ConversionErrorRaises == "except"
\* lines 69-72: a conversion error is logged and the original file is used
OnConversionError == "transcribe"

ConversionFailed(e, how) ==
    /\ conv' = [conv EXCEPT ![e] = how]
    /\ epc' = [epc EXCEPT ![e] = OnConversionError]
    /\ err' = [err EXCEPT ![e] = IF OnConversionError = "except" THEN "conversion" ELSE @]
    /\ UNCHANGED work

\* the file ffmpeg leaves at output_path
Written(h) == [owner |-> h, unlinkRaised |-> FALSE]

\* lines 66-72 and convert_audio (137-154): ffmpeg writes output_path
\* (overwrite_output=True) or raises, having written part of it or nothing
ConvertAudio(e) ==
    /\ epc[e] = "convert"
    /\ \/ /\ InputExists(InputOf(e))
          /\ tempFile' = [tempFile EXCEPT ![tcf[e]] = Written(job[e])]
          /\ work' = [work EXCEPT ![e] = "temp"]
          /\ conv' = [conv EXCEPT ![e] = "ok"]
          /\ epc' = [epc EXCEPT ![e] = "transcribe"]
          /\ UNCHANGED err
       \/ /\ tempFile' = [tempFile EXCEPT ![tcf[e]] = Written(job[e])]
          /\ ConversionFailed(e, "partial")
       \/ /\ UNCHANGED tempFile
          /\ ConversionFailed(e, "clean")
    /\ Quiet
    /\ UNCHANGED <<gatewayVars, input, brokerVars, backend, outcome, pool, job,
                   model, tcf, engineOut, hist, proc, starts, fallback>>

\* convert_audio raised for the job executor e runs
ConvFailed(e) == conv[e] \in {"partial", "clean"}

\* the file at working_audio_path is there to be read
WorkingFileExists(e) ==
    IF work[e] = "orig" THEN InputExists(InputOf(e)) ELSE TempExists(tcf[e])

\* lines 74-82: model.transcribe(str(working_audio_path), ...) returns or raises
TranscribeWith(e, outputs) ==
    /\ epc[e] = "transcribe"
    /\ \/ /\ WorkingFileExists(e)
          /\ \E out \in outputs : engineOut' = [engineOut EXCEPT ![e] = out]
          /\ fallback' = IF ConvFailed(e) THEN fallback \cup {job[e]} ELSE fallback
          /\ UNCHANGED err
       \/ /\ err' = [err EXCEPT ![e] = "engine"]
          /\ UNCHANGED <<engineOut, fallback>>
    /\ epc' = [epc EXCEPT ![e] = "finally"]
    /\ Quiet
    /\ UNCHANGED <<gatewayVars, input, tempFile, brokerVars, backend, outcome,
                   pool, job, model, tcf, work, conv, hist, proc, starts>>

CleanupOnlyAfterConversion(e) == work[e] = "temp" /\ TempExists(tcf[e])
\* line 85: if temp_converted_file and temp_converted_file.exists()
CleanupWanted(e) == tcf[e] # 0 /\ TempExists(tcf[e])

\* lines 83-90: the finally block of the engine call
Finally(e) ==
    /\ epc[e] = "finally"
    /\ \/ /\ CleanupWanted(e)
          /\ tempFile' = [tempFile EXCEPT ![tcf[e]] = NoFile]
       \/ \* unlink raises: line 90 logs a warning
          /\ CleanupWanted(e)
          /\ tempFile' = [tempFile EXCEPT ![tcf[e]].unlinkRaised = TRUE]
       \/ /\ ~CleanupWanted(e)
          /\ UNCHANGED tempFile
    /\ epc' = [epc EXCEPT ![e] = IF err[e] = "engine" THEN "except" ELSE "unlink_input"]
    /\ Quiet
    /\ UNCHANGED <<gatewayVars, input, brokerVars, backend, outcome, pool, job,
                   model, tcf, work, engineOut, err, conv, hist, proc, starts, fallback>>

InputUnlinkErrorRaises == "except"
\* lines 105-109: an error of audio_path.unlink() is logged as a warning
OnInputUnlinkError == "return"

\* lines 92-109: the text is assembled, then audio_path.unlink() in a try
DeleteInput(e) ==
    /\ epc[e] = "unlink_input"
    /\ \/ /\ InputExists(InputOf(e))
          /\ input' = [input EXCEPT ![InputOf(e)] = Absent]
          /\ epc' = [epc EXCEPT ![e] = "return"]
       \/ \* unlink raises: line 109 logs a warning
          /\ UNCHANGED input
          /\ epc' = [epc EXCEPT ![e] = OnInputUnlinkError]
    /\ hist' = [hist EXCEPT ![e].unlinks = @ + 1]
    /\ Quiet
    /\ UNCHANGED <<gatewayVars, tempFile, brokerVars, backend, outcome, pool, job,
                   model, tcf, work, engineOut, err, conv, proc, starts, fallback>>

\* worker_max_tasks_per_child: the child process that has run that many tasks
\* is replaced by a new one
Recycled(e) == proc[e].tasks + 1 >= worker_max_tasks_per_child

StoppedAfterTask == "stopped"
\* where the child is once its task has returned or raised: waiting for the
\* next one
AfterTask == "idle"

\* the task is over and acknowledged: the executor is free again, in the same
\* process or in a new one
Release(e) ==
    /\ epc' = [epc EXCEPT ![e] = AfterTask]
    /\ job' = [job EXCEPT ![e] = 0]
    /\ tcf' = [tcf EXCEPT ![e] = 0]
    /\ work' = [work EXCEPT ![e] = "orig"]
    /\ engineOut' = [engineOut EXCEPT ![e] = NoOutput]
    /\ err' = [err EXCEPT ![e] = "none"]
    /\ conv' = [conv EXCEPT ![e] = "none"]
    /\ hist' = [hist EXCEPT ![e] = NoHistory]
    /\ proc' = [proc EXCEPT ![e] =
                    IF Recycled(e)
                    THEN [NewProcess EXCEPT !.loadsBefore = proc[e].loadsBefore + proc[e].loads]
                    ELSE [@ EXCEPT !.tasks = @ + 1]]
    /\ model' = [model EXCEPT ![e] = IF Recycled(e) THEN FALSE ELSE @]

\* lines 111-117: the task returns; the worker stores SUCCESS and acknowledges
Return(e) ==
    /\ epc[e] = "return"
    /\ backend' = [backend EXCEPT ![job[e]] = SuccessRecord(ResultDict(engineOut[e]))]
    /\ outcome' = [outcome EXCEPT ![job[e]] = "completed"]
    /\ Release(e)
    /\ Quiet
    /\ UNCHANGED <<gatewayVars, input, tempFile, brokerVars, pool, starts, fallback>>

\* line 43 ran, so audio_path is a Path: it did not when the model load raised
AudioPathIsPath(e) == err[e] # "load"

CleanupWithoutCheck(e) == AudioPathIsPath(e)
\* lines 124-126: if audio_path.exists(): audio_path.unlink(); on the str
\* argument exists() raises AttributeError, which line 128 catches
CleanupAttempted(e) == AudioPathIsPath(e) /\ InputExists(InputOf(e))

\* lines 119-129: the cleanup of the except block
Except(e) ==
    /\ epc[e] = "except"
    /\ \/ /\ CleanupAttempted(e)
          /\ InputExists(InputOf(e))
          /\ input' = [input EXCEPT ![InputOf(e)] = Absent]
          /\ hist' = [hist EXCEPT ![e].unlinks = @ + 1]
       \/ \* unlink raises: line 129 logs a warning
          /\ CleanupAttempted(e)
          /\ hist' = [hist EXCEPT ![e].unlinks = @ + 1]
          /\ UNCHANGED input
       \/ \* nothing to delete, or exists() raises
          /\ ~CleanupAttempted(e)
          /\ UNCHANGED <<input, hist>>
    /\ epc' = [epc EXCEPT ![e] = "mark_failed"]
    /\ Quiet
    /\ UNCHANGED <<gatewayVars, tempFile, brokerVars, backend, outcome, pool, job,
                   model, tcf, work, engineOut, err, conv, proc, starts, fallback>>

\* line 132: self.update_state(state='FAILURE', meta={'error': error_msg})
MarkFailed(e) ==
    /\ epc[e] = "mark_failed"
    /\ backend' = [backend EXCEPT ![job[e]] = FailureMetaRecord(ErrorMsg(err[e]))]
    /\ epc' = [epc EXCEPT ![e] = "raise"]
    /\ Quiet
    /\ UNCHANGED <<gatewayVars, input, tempFile, brokerVars, outcome, pool, job,
                   model, tcf, work, engineOut, err, conv, hist, proc, starts, fallback>>

\* line 134: the task raises; the worker stores FAILURE with the exception
\* and acknowledges
Raise(e) ==
    /\ epc[e] = "raise"
    /\ backend' = [backend EXCEPT ![job[e]] = FailureExcRecord(ErrorMsg(err[e]))]
    /\ outcome' = [outcome EXCEPT ![job[e]] = "failed"]
    /\ Release(e)
    /\ Quiet
    /\ UNCHANGED <<gatewayVars, input, tempFile, brokerVars, pool, starts, fallback>>

Transcribe(e) == TranscribeWith(e, EngineOutputs)

\* ------------------------------------------------------------------ Next
Next ==
    \/ \E r \in Requests : Upload(r)
    \/ \E r \in Requests : Enqueue(r)
    \/ \E r \in Requests : Respond(r)
    \/ \E h \in Handles : InputLost(h)
    \/ \E h \in Queryable : Query(h)
    \/ Fetch
    \/ \E e \in Executors : Start(e)
    \/ \E h \in Handles : Expire(h)
    \/ \E e \in Executors : LoadModel(e)
    \/ \E e \in Executors : CheckInput(e)
    \/ \E e \in Executors : Mktemp(e)
    \/ \E e \in Executors : ConvertAudio(e)
    \/ \E e \in Executors : Transcribe(e)
    \/ \E e \in Executors : Finally(e)
    \/ \E e \in Executors : DeleteInput(e)
    \/ \E e \in Executors : Return(e)
    \/ \E e \in Executors : Except(e)
    \/ \E e \in Executors : MarkFailed(e)
    \/ \E e \in Executors : Raise(e)

Spec == Init /\ [][Next]_vars

\* --------------------------------------------------------------- fairness
\* one step of transcribe_audio in executor e
ExecutorStep(e) ==
    \/ LoadModel(e) \/ CheckInput(e) \/ Mktemp(e) \/ ConvertAudio(e) \/ Transcribe(e)
    \/ Finally(e) \/ DeleteInput(e) \/ Return(e)
    \/ Except(e) \/ MarkFailed(e) \/ Raise(e)

\* The worker runs: its consumer fetches while the prefetch limit allows, the
\* pool hands a reserved message to a free child, and a child that runs a
\* task goes on to its next step (every call of the task returns or raises).
\* Nothing is assumed of clients, of the expiry of records or of the disk.
WorkerFairness ==
    /\ WF_vars(Fetch)
    /\ \A e \in Executors : WF_vars(Start(e))
    /\ \A e \in Executors : WF_vars(ExecutorStep(e))

\* Next without get_job_status, which reads the backend and changes nothing
\* but the response it returns
NextLive ==
    \/ \E r \in Requests : Upload(r)
    \/ \E r \in Requests : Enqueue(r)
    \/ \E r \in Requests : Respond(r)
    \/ \E h \in Handles : InputLost(h)
    \/ Fetch
    \/ \E e \in Executors : Start(e)
    \/ \E h \in Handles : Expire(h)
    \/ \E e \in Executors : LoadModel(e)
    \/ \E e \in Executors : CheckInput(e)
    \/ \E e \in Executors : Mktemp(e)
    \/ \E e \in Executors : ConvertAudio(e)
    \/ \E e \in Executors : Transcribe(e)
    \/ \E e \in Executors : Finally(e)
    \/ \E e \in Executors : DeleteInput(e)
    \/ \E e \in Executors : Return(e)
    \/ \E e \in Executors : Except(e)
    \/ \E e \in Executors : MarkFailed(e)
    \/ \E e \in Executors : Raise(e)

FairSpec == Init /\ [][NextLive]_vars /\ WorkerFairness

\* ------------------------------------------------ long-running worker
\* a child process that has loaded the model and is one task short of
\* worker_max_tasks_per_child
AgedProcess == [NewProcess EXCEPT !.tasks = worker_max_tasks_per_child - 1, !.loads = 1]

\* The worker has just started, as in Init, or has been running for a while
\* with no request in progress: every child is an AgedProcess.
InitAged ==
    /\ gpc = [r \in Requests |-> "idle"]
    /\ jobId = [r \in Requests |-> 0]
    /\ gresp = [r \in Requests |-> NoResponse]
    /\ input = [r \in Requests |-> Absent]
    /\ tempFile = [t \in TempNames |-> NoFile]
    /\ queue = <<>>
    /\ reserved = <<>>
    /\ jobs = 0
    /\ argPath = [h \in Handles |-> 0]
    /\ backend = [h \in Handles |-> NoRecord]
    /\ outcome = [h \in Handles |-> "none"]
    /\ pool \in 1..MaxPool
    /\ epc = [e \in Executors |-> "idle"]
    /\ job = [e \in Executors |-> 0]
    /\ \E aged \in BOOLEAN :
          /\ model = [e \in Executors |-> aged /\ e <= pool]
          /\ proc = [e \in Executors |-> IF aged /\ e <= pool THEN AgedProcess ELSE NewProcess]
    /\ tcf = [e \in Executors |-> 0]
    /\ work = [e \in Executors |-> "orig"]
    /\ engineOut = [e \in Executors |-> NoOutput]
    /\ err = [e \in Executors |-> "none"]
    /\ conv = [e \in Executors |-> "none"]
    /\ hist = [e \in Executors |-> NoHistory]
    /\ starts = [h \in Handles |-> 0]
    /\ fallback = {}
    /\ resp = NoQuery

SpecAged == InitAged /\ [][NextLive]_vars

\* ------------------------------------------- the text of a completed job
\* One .wav upload has been accepted and its task is at line 74, about to
\* call the engine, which can return any of AnyEngineOutputs.
InitText ==
    /\ gpc = [r \in Requests |-> IF r = 1 THEN "done" ELSE "idle"]
    /\ jobId = [r \in Requests |-> IF r = 1 THEN 1 ELSE 0]
    /\ gresp = [r \in Requests |-> IF r = 1 THEN Accepted(1) ELSE NoResponse]
    /\ input = [r \in Requests |-> IF r = 1 THEN ".wav" ELSE Absent]
    /\ tempFile = [t \in TempNames |-> NoFile]
    /\ queue = <<>>
    /\ reserved = <<>>
    /\ jobs = 1
    /\ argPath = [h \in Handles |-> IF h = 1 THEN 1 ELSE 0]
    /\ backend = [h \in Handles |->
                    IF h = 1 THEN ProgressRecord("Starting transcription") ELSE NoRecord]
    /\ outcome = [h \in Handles |-> "none"]
    /\ pool = 1
    /\ epc = [e \in Executors |-> IF e = 1 THEN "transcribe" ELSE "idle"]
    /\ job = [e \in Executors |-> IF e = 1 THEN 1 ELSE 0]
    /\ model = [e \in Executors |-> e = 1]
    /\ tcf = [e \in Executors |-> 0]
    /\ work = [e \in Executors |-> "orig"]
    /\ engineOut = [e \in Executors |-> NoOutput]
    /\ err = [e \in Executors |-> "none"]
    /\ conv = [e \in Executors |-> "none"]
    /\ hist = [e \in Executors |-> NoHistory]
    /\ proc = [e \in Executors |-> IF e = 1 THEN [NewProcess EXCEPT !.loads = 1] ELSE NewProcess]
    /\ starts = [h \in Handles |-> IF h = 1 THEN 1 ELSE 0]
    /\ fallback = {}
    /\ resp = NoQuery

NextText ==
    \/ \E e \in Executors : TranscribeWith(e, AnyEngineOutputs)
    \/ \E e \in Executors : Finally(e)
    \/ \E e \in Executors : DeleteInput(e)
    \/ \E e \in Executors : Return(e)
    \/ \E e \in Executors : Except(e)
    \/ \E e \in Executors : MarkFailed(e)
    \/ \E e \in Executors : Raise(e)
    \/ \E h \in Queryable : Query(h)

SpecText == InitText /\ [][NextText]_vars

\* ------------------------------------------------------------ properties
\* the worker or the task itself has recorded the end of job h
Terminal(h) == backend[h].state \in {"SUCCESS", "FAILURE"} \/ outcome[h] # "none"
\* the record of finished job h has been removed from the backend
Expired(h) == outcome[h] # "none" /\ backend[h] = NoRecord
\* a get_job_status response is being returned
Answered == resp.r.code # 0
\* the executor running h, if any
ExecutorsOn(h) == {e \in Executors : job[e] = h}
FailurePcs == {"except", "mark_failed", "raise"}

JobStatuses == {"queued", "processing", "completed", "failed"}
Rank(st) == CASE st = "queued" -> 0 [] st = "processing" -> 1 [] OTHER -> 2
\* the statuses a query on h can report now
StatusesNow(h) == {r.status : r \in {x \in get_job_status(h, RecordOf(h)) : x.code = 200}}
Forward(a, b) ==
    (a \in JobStatuses /\ b \in JobStatuses) =>
        /\ Rank(a) <= Rank(b)
        /\ a \in {"completed", "failed"} => b = a

\* C1: the status reported for a handle never moves back: a query made after
\* any step reports no earlier status than a query made before it, and a
\* reported completed or failed is never followed by another status.
C1_StatusOnlyMovesForward ==
    [][\A h \in Handles : \A a \in StatusesNow(h) : \A b \in StatusesNow(h)' : Forward(a, b)]_vars

Count(q, h) == Cardinality({i \in 1..Len(q) : q[i] = h})
\* where job h is: waiting at the broker, reserved, running, or finished
Places(h) ==
    Count(queue, h) + Count(reserved, h) + Cardinality(ExecutorsOn(h))
        + (IF outcome[h] # "none" THEN 1 ELSE 0)

C3_InputGoneAtTerminal ==
    \A h \in 1..jobs : Terminal(h) => ~InputExists(argPath[h])

\* C4: a query on a handle that was never issued, or whose record has
\* expired, is answered with status unknown.
C4_UnknownHandleReportedUnknown ==
    (Answered /\ (resp.h = NeverIssued \/ Expired(resp.h))) =>
        (resp.r.code = 200 /\ resp.r.status = "unknown")

\* C5: after a conversion failure the engine is called on the original file,
\* the failure path is entered only by an engine error, and a job whose engine
\* call then succeeded stays on the way to Return and ends completed.
C5_FallbackCompletes ==
    /\ \A e \in Executors :
          ConvFailed(e) =>
             /\ epc[e] \in {"transcribe", "finally"} => work[e] = "orig"
             /\ epc[e] \in FailurePcs => err[e] = "engine"
    /\ \A h \in fallback :
          /\ outcome[h] \in {"none", "completed"}
          /\ outcome[h] = "none" =>
                \E e \in ExecutorsOn(h) : epc[e] \in {"finally", "unlink_input", "return"}

\* a job whose conversion failed has completed
C5_Witness == \E h \in fallback : outcome[h] = "completed" /\ backend[h].state = "SUCCESS"

\* C6: a query on a job that an executor has claimed and that is not yet
\* completed or failed is answered with status processing.
C6_ProcessingFromClaim ==
    (Answered /\ resp.h \in Handles /\ ExecutorsOn(resp.h) # {} /\ ~Terminal(resp.h)) =>
        (resp.r.code = 200 /\ resp.r.status = "processing")

\* C7: a query on a job whose failure has been recorded is answered with
\* status failed and a non-empty error, not with an HTTP error.
C7_FailedReported ==
    (Answered /\ resp.h \in Handles /\ RecordOf(resp.h).state = "FAILURE") =>
        /\ resp.r.code = 200
        /\ resp.r.status = "failed"
        /\ IsSet(resp.r.error)

AllResultFieldsSet(r) ==
    IsSet(r.text) /\ IsSet(r.language) /\ IsSet(r.language_probability) /\ IsSet(r.duration)
SomeResultFieldSet(r) ==
    IsSet(r.text) \/ IsSet(r.language) \/ IsSet(r.language_probability) \/ IsSet(r.duration)

C9_SecondWaits ==
    pool = 1 =>
        \A a, b \in 1..jobs :
            (a < b /\ ~Terminal(a)) =>
                /\ Count(queue, b) = 1
                /\ backend[b] = NoRecord
                /\ (Answered /\ resp.h = b) => resp.r = QueuedResponse(b)

\* one executor runs the first job while a query on the second is answered
C9_Witness ==
    /\ pool = 1
    /\ jobs = 2
    /\ \E e \in Executors : job[e] = 1 /\ epc[e] = "transcribe"
    /\ resp = [h |-> 2, r |-> QueuedResponse(2)]

\* the engine call of job h and its finally block are over
AttemptEnded(h) ==
    outcome[h] # "none"
        \/ \E e \in ExecutorsOn(h) :
              epc[e] \in {"unlink_input", "return"} \/ (epc[e] \in FailurePcs /\ err[e] = "engine")

\* C10 as stated: once the attempt has ended no converted file of the job exists.
C10_NoTempAfterAttempt ==
    \A h \in 1..jobs : AttemptEnded(h) => \A t \in TempNames : tempFile[t].owner # h

\* C10: once the attempt has ended, a converted file of the job exists only
\* if the unlink of that file raised.
C10_NoTempUnlessUnlinkRaised ==
    \A h \in 1..jobs :
        AttemptEnded(h) => \A t \in TempNames : tempFile[t].owner = h => tempFile[t].unlinkRaised

\* a job whose conversion failed after writing part of the output is past the
\* finally block with no converted file left
C10_Witness ==
    \E e \in Executors :
        /\ epc[e] = "return"
        /\ conv[e] = "partial"
        /\ \A t \in TempNames : ~TempExists(t)

\* the exceptions that send a job to the except block at line 119
OriginalFailures == {"load", "notfound", "engine"}

\* C11: whatever the unlink calls of the task did, the step that ends a task
\* whose engine call returned stores completed with the result made of that
\* engine output, and the step that ends any other task stores failed with the
\* message of the exception that sent it to the except block.
C11_DeletionFailureKeepsOutcome ==
    [][\A e \in Executors :
          (job[e] # 0 /\ job'[e] = 0) =>
              IF engineOut[e].ok
              THEN /\ outcome'[job[e]] = "completed"
                   /\ backend'[job[e]] = SuccessRecord(ResultDict(engineOut[e]))
              ELSE /\ outcome'[job[e]] = "failed"
                   /\ err[e] \in OriginalFailures
                   /\ backend'[job[e]] = FailureExcRecord(ErrorMsg(err[e]))]_vars

\* a job is reported completed with its text although neither its converted
\* file nor its input file could be deleted
C11_Witness ==
    \E h \in 1..jobs :
        /\ outcome[h] = "completed"
        /\ InputExists(argPath[h])
        /\ \E t \in TempNames : tempFile[t].owner = h /\ tempFile[t].unlinkRaised
        /\ resp.h = h
        /\ resp.r.code = 200
        /\ resp.r.status = "completed"
        /\ IsSet(resp.r.text)

RECURSIVE Concatenation(_)
\* the segments' characters in emitted order, nothing between them
Concatenation(segments) ==
    IF segments = <<>> THEN <<>>
    ELSE Concatenation(SubSeq(segments, 1, Len(segments) - 1)) \o segments[Len(segments)]

\* the texts a query reports for handle h once rec is its record
ReportedTexts(h, rec) == {r.text : r \in {x \in get_job_status(h, rec) : x.code = 200}}

\* text is what is left of whole when the whitespace at its two ends is
\* taken off: nothing is added, and nothing else is removed
IsTrimOf(text, whole) ==
    /\ \E i \in 0..Len(whole) : \E j \in i..Len(whole) :
          /\ text = SubSeq(whole, i + 1, j)
          /\ \A k \in 1..i : whole[k] \in Whitespace
          /\ \A k \in (j + 1)..Len(whole) : whole[k] \in Whitespace
    /\ text # <<>> => (text[1] \notin Whitespace /\ text[Len(text)] \notin Whitespace)

\* C12 as stated: the text reported for a job that has just completed is the
\* concatenation of the engine's segments, no character added or removed.
C12_TextIsConcatenation ==
    [][\A e \in Executors :
          (epc[e] = "return" /\ epc'[e] = "idle") =>
              \A t \in ReportedTexts(job[e], backend'[job[e]]) :
                  t = Some(Concatenation(engineOut[e].segments))]_vars

\* C12: the text reported for a job that has just completed is the
\* concatenation of the engine's segments in emitted order, no separator
\* inserted, with the whitespace at its two ends (and nothing else) removed.
C12_TextIsTrimmedConcatenation ==
    [][\A e \in Executors :
          (epc[e] = "return" /\ epc'[e] = "idle") =>
              \A t \in ReportedTexts(job[e], backend'[job[e]]) :
                  IsSet(t) /\ IsTrimOf(t[1], Concatenation(engineOut[e].segments))]_vars

\* a completed job is reported with a text that only segment lists with
\* whitespace at a segment's end produce
C12_Witness ==
    /\ resp.h = 1
    /\ resp.r.code = 200
    /\ resp.r.status = "completed"
    /\ resp.r.text = Some(<<"a", " ", " ", "a">>)

\* what holds of a task whose input file was missing when it started, but
\* for the error it fails with
MissingInputUntouched(e) ==
    /\ epc[e] \in {"load", "check"} \cup FailurePcs
    /\ conv[e] = "none"
    /\ ~engineOut[e].ok
    /\ tcf[e] = 0
    /\ \A t \in TempNames : tempFile[t].owner # job[e]
    /\ hist[e].unlinks = 0

\* C13 as stated: a task whose input file was missing when it started fails
\* with the file-not-found error, without conversion, engine call, temporary
\* file or unlink of the input.
C13_MissingInputFailsNotFound ==
    \A e \in Executors :
        hist[e].missing =>
            /\ MissingInputUntouched(e)
            /\ epc[e] \in FailurePcs => err[e] = "notfound"
            /\ epc[e] = "raise" => backend[job[e]] = FailureMetaRecord(ErrorMsg("notfound"))

\* C13: a task whose input file was missing when it started fails without
\* conversion, engine call, temporary file or unlink of the input; its error
\* is the file-not-found error when the executor has the model, and the error
\* of the model load when that load raised.
C13_MissingInputFailsUntouched ==
    \A e \in Executors :
        hist[e].missing =>
            /\ MissingInputUntouched(e)
            /\ epc[e] \in FailurePcs => err[e] = (IF model[e] THEN "notfound" ELSE "load")
            /\ epc[e] = "raise" => backend[job[e]] = FailureMetaRecord(ErrorMsg(err[e]))

\* a task whose input was missing at its start has recorded the
\* file-not-found failure and is about to raise
C13_Witness ==
    \E e \in Executors :
        /\ hist[e].missing
        /\ epc[e] = "raise"
        /\ backend[job[e]] = FailureMetaRecord(ErrorMsg("notfound"))

\* C14: the input file of an enqueued job is removed only by the executor
\* running that job, at its unlink after the engine call and the finally block
\* (line 106) or in its except block (line 126), never by the gateway handler
\* or another executor, hence never while the job waits or while convert_audio
\* or the engine reads it; a task calls unlink on it at most once.  (The loss
\* of the file to the environment while the job waits is not a deletion by
\* one of these actors.)
C14_InputOwnedByJob ==
    /\ [](\A e \in Executors : hist[e].unlinks <= 1)
    /\ [][\A h \in 1..jobs :
            (InputExists(argPath[h]) /\ ~InputExists(argPath[h])') =>
                \/ InputLost(h)
                \/ \E e \in ExecutorsOn(h) :
                      /\ epc[e] \in {"unlink_input", "except"}
                      /\ epc'[e] \in {"return", "mark_failed"}]_vars

\* one executor has deleted the input of its job after the engine call while
\* another executor's engine call is about to read the input of another job
C14_Witness ==
    \E e1, e2 \in Executors :
        /\ epc[e1] = "return"
        /\ hist[e1].unlinks = 1
        /\ ~InputExists(InputOf(e1))
        /\ epc[e2] = "transcribe"
        /\ work[e2] = "orig"
        /\ InputExists(InputOf(e2))

\* C15: no two executors hold the same converted temporary path at the same
\* time, from tempfile.mktemp to the end of the task's cleanup.
C15_TempPathsDisjoint ==
    \A e1, e2 \in Executors :
        (e1 # e2 /\ tcf[e1] # 0) => tcf[e1] # tcf[e2]

\* the progress message last stored for the task of executor e: <<m>>, or
\* <<>> when its record is not a PROGRESS record
LastProgress(e) ==
    IF backend[job[e]].state = "PROGRESS" THEN Some(backend[job[e]].meta.message) ELSE None

\* C16: when convert_audio is about to be called the last progress message of
\* the task is the converting marker, and when the engine is about to be
\* called it is the marker of the transcription, also after a conversion.
C16_MarkerBeforeEachStage ==
    \A e \in Executors :
        /\ epc[e] = "convert" => LastProgress(e) = Some("Converting audio format")
        /\ epc[e] = "transcribe" => LastProgress(e) = Some("Starting transcription")

\* C17: under WorkerFairness every enqueued job is eventually completed or
\* failed, whatever happened to the jobs before it.
C17_EveryJobEnds ==
    \A h \in Handles : (h <= jobs) ~> (outcome[h] # "none")

\* with one executor, the first job has failed and the second has ended
C17_Witness ==
    /\ pool = 1
    /\ jobs = 2
    /\ outcome[1] = "failed"
    /\ outcome[2] # "none"

\* models loaded so far by executor e, in its child process and in those it
\* replaced
LoadsOfExecutor(e) == proc[e].loadsBefore + proc[e].loads

\* a task of executor e is past lines 38-41
PastLoad(e) == epc[e] \notin {"idle", "load"}

C19_EnqueuedIsAnsweredQueued ==
    \A r \in Requests :
        (gpc[r] = "done" /\ jobId[r] # 0 /\ outcome[jobId[r]] = "completed") =>
            gresp[r] = Accepted(jobId[r])

====
